---- MODULE Spec2Model ----
(***************************************************************************)
(* The AzureKeyVaultSecret controller of azure-key-vault-to-kubernetes:    *)
(* the informer's event handlers, the two work queues, the Output          *)
(* Reconciler (syncAzureKeyVaultSecret) and the Vault Reconciler           *)
(* (syncAzureKeyVault), for one declaring resource (key ns/foo).           *)
(*                                                                         *)
(* The API server holds the declaring resource (akvs), the native secret   *)
(* and the native config map.  The informer keeps a copy of the declaring  *)
(* resource (store), which the lister reads and which may lag behind the   *)
(* API server.  A resource version (rv) numbers the versions of akvs.      *)
(***************************************************************************)
EXTENDS Integers, FiniteSets, Sequences, TLC

\* ------------------------------------------------------------------ bounds

\* The highest resource version the declaring resource reaches.
MaxRV == 2
\* The number of payloads the vault object takes, one after the other.
NumValues == 2
\* The worker's retry ceiling (maxRetries of the queue worker).
MaxRetries == 1
\* The number of times an operator changes the resource's spec.
MaxSpecChanges == 1

\* ------------------------------------------------------------- data model

SecretOutputName == "foo-secret"
ConfigMapOutputName == "foo-cm"
AkvsUID == "uid-foo"

VaultValues == 1..NumValues

\* Spec.Vault.Object.Type: a supported type, or one the switch does not know.
ObjectTypes == {"secret", "unsupported"}

NoHash == <<>>

EmptyStatus ==
    [SecretName |-> "", SecretHash |-> NoHash,
     ConfigMapName |-> "", ConfigMapHash |-> NoHash,
     LastAzureUpdate |-> "never"]

\* No declaring resource (the lister's and the API server's "not found").
NoAkvs ==
    [exists |-> FALSE, rv |-> 0, objType |-> "secret",
     secretName |-> "", configMapName |-> "", status |-> EmptyStatus]

NewAkvs(sn, cn, t) ==
    [exists |-> TRUE, rv |-> 0, objType |-> t,
     secretName |-> sn, configMapName |-> cn, status |-> EmptyStatus]

\* No native object, and a native object an unrelated process created: it
\* carries no owner reference and its own data.
NoObject == [exists |-> FALSE, owner |-> "", data |-> 0]
ForeignObject == [exists |-> TRUE, owner |-> "", data |-> 0]

VARIABLES
    akvs,        \* the declaring resource in the API server
    store,       \* the informer's copy of it (what the lister returns)
    secret,      \* the native secret named by the secret output
    configMap,   \* the native config map named by the config-map output
    vault,       \* the payload the vault holds now
    crdQueue,    \* the structural queue (akvsCrdQueue), for the one key
    akvQueue,    \* the vault-drift queue (azureKeyVaultQueue)
    crdWorker,   \* the structural worker and its pass
    akvWorker,   \* the vault-drift worker and its pass
    seenOutput,  \* history: an event carried an object with output defined
    deleteSeen,  \* history: DeleteFunc ran for an object with output defined
    settled,     \* history: a vault pass propagated a drift and nothing changed since
    specChanges  \* history: the number of spec changes so far

vars == <<akvs, store, secret, configMap, vault, crdQueue, akvQueue,
          crdWorker, akvWorker, seenOutput, deleteSeen, settled, specChanges>>

\* ------------------------------------------------------------ work queue
\* A rate-limiting work queue, for one key: dirty (added, or waiting for the
\* backoff of an AddRateLimited, and not yet handed to a worker), processing
\* (handed to a worker, not yet Done), requeues (NumRequeues). A worker takes
\* a dirty key at any later time, which covers every length of backoff.

EmptyQueue == [dirty |-> FALSE, processing |-> FALSE, requeues |-> 0]

\* queue.Enqueue(q, obj): key the object, Add the key. Add of a key already
\* dirty changes nothing; a key in process is queued again at its Done.
Enqueue(q) == [q EXCEPT !.dirty = TRUE]

\* Forget(key): clears the rate limiter's count for the key, nothing else.
Forget(q) == [q EXCEPT !.requeues = 0]

\* AddRateLimited(key): counts a failure and adds the key after the backoff.
AddRateLimited(q) == [q EXCEPT !.requeues = @ + 1, !.dirty = TRUE]

\* Get: hands the key to a worker.
QueueGet(q) == [q EXCEPT !.dirty = FALSE, !.processing = TRUE]

\* Done(key).
QueueDone(q) == [q EXCEPT !.processing = FALSE]

CanGet(q) == q.dirty /\ ~q.processing

\* The worker's handling of a reconcile result: Forget on success; on error
\* AddRateLimited below the retry ceiling, Forget at it; then Done.
HandleResult(q, result) ==
    QueueDone(IF result = "nil" THEN Forget(q)
              ELSE IF q.requeues < MaxRetries THEN AddRateLimited(q)
              ELSE Forget(q))

\* -------------------------------------------------------- event handlers

akvsHasOutputSecret(a) == a.secretName # ""

akvsHasOutputConfigMap(a) == a.configMapName # ""

akvsHasOutputDefined(a) == akvsHasOutputSecret(a) \/ akvsHasOutputConfigMap(a)

\* AddFunc without the output guard: every added resource is enqueued.
AddFunc_Unguarded(obj) ==
    /\ crdQueue' = Enqueue(crdQueue)
    /\ akvQueue' = akvQueue
    /\ seenOutput' = (seenOutput \/ akvsHasOutputDefined(obj))
    /\ deleteSeen' = deleteSeen

\* AddFunc(obj)
AddFunc(obj) ==
    /\ crdQueue' = IF akvsHasOutputDefined(obj) THEN Enqueue(crdQueue) ELSE crdQueue
    /\ akvQueue' = akvQueue
    /\ seenOutput' = (seenOutput \/ akvsHasOutputDefined(obj))
    /\ deleteSeen' = deleteSeen

\* UpdateFunc that does not tell a refresh from a change: a resource with
\* output defined goes on both queues.
UpdateFunc_BothQueues(old, new) ==
    /\ IF akvsHasOutputDefined(new) \/ akvsHasOutputDefined(old)
       THEN /\ crdQueue' = Enqueue(crdQueue)
            /\ akvQueue' = Enqueue(akvQueue)
       ELSE /\ crdQueue' = crdQueue
            /\ akvQueue' = akvQueue
    /\ seenOutput' = (seenOutput \/ akvsHasOutputDefined(new) \/ akvsHasOutputDefined(old))
    /\ deleteSeen' = deleteSeen

\* UpdateFunc(old, new)
UpdateFunc(old, new) ==
    /\ IF new.rv = old.rv /\ akvsHasOutputDefined(new)
       THEN /\ akvQueue' = Enqueue(akvQueue)
            /\ crdQueue' = crdQueue
       ELSE IF akvsHasOutputDefined(new) \/ akvsHasOutputDefined(old)
       THEN /\ crdQueue' = Enqueue(crdQueue)
            /\ akvQueue' = akvQueue
       ELSE /\ crdQueue' = crdQueue
            /\ akvQueue' = akvQueue
    /\ seenOutput' = (seenOutput \/ akvsHasOutputDefined(new) \/ akvsHasOutputDefined(old))
    /\ deleteSeen' = deleteSeen

\* DeleteFunc(obj). The payload is the object or a DeletedFinalStateUnknown
\* tombstone holding it; convertToAzureKeyVaultSecret unwraps the tombstone,
\* but MetaNamespaceKeyFunc cannot key one: Enqueue then adds nothing and the
\* handler returns before Forget.
DeleteFunc(obj, tombstone) ==
    /\ IF akvsHasOutputDefined(obj)
       THEN IF tombstone
            THEN /\ crdQueue' = crdQueue
                 /\ akvQueue' = akvQueue
            ELSE /\ crdQueue' = Enqueue(crdQueue)
                 /\ akvQueue' = Forget(akvQueue)
       ELSE /\ crdQueue' = crdQueue
            /\ akvQueue' = akvQueue
    /\ seenOutput' = (seenOutput \/ akvsHasOutputDefined(obj))
    /\ deleteSeen' = (deleteSeen \/ akvsHasOutputDefined(obj))

\* Event payloads that are not a declaring resource: another object, and a
\* DeletedFinalStateUnknown tombstone holding another object.
UnexpectedPayloads ==
    {[kind |-> "other", inner |-> ""], [kind |-> "tombstone", inner |-> "other"]}

\* convertToAzureKeyVaultSecret(obj): the resource, the resource inside a
\* tombstone, or (nil, error).
convertToAzureKeyVaultSecret(payload) ==
    IF payload.kind = "akvs" THEN [err |-> FALSE, nil |-> FALSE]
    ELSE IF payload.kind # "tombstone" THEN [err |-> TRUE, nil |-> TRUE]
    ELSE IF payload.inner # "akvs" THEN [err |-> TRUE, nil |-> TRUE]
    ELSE [err |-> FALSE, nil |-> FALSE]

\* What a handler does with the conversion's answer: on an error it logs and
\* goes on to its output test (AddFunc, DeleteFunc: akvsHasOutputDefined;
\* UpdateFunc: newSecret.ResourceVersion), which reads through the nil
\* resource and panics.
HandlerAfterConversion(handler, conv) ==
    IF conv.nil THEN "panic" ELSE "handled"

\* ------------------------------------------------ API server and the vault

\* isOwnedBy(obj, owner): obj has a controller reference to owner.
isOwnedBy(obj, a) == obj.exists /\ a.exists /\ obj.owner = AkvsUID

getMD5HashOfByteValues(v) == <<"md5-bytes", v>>

getMD5HashOfStringValues(v) == <<"md5-strings", v>>

determineSecretName(a) == a.secretName

determineConfigMapName(a) == a.configMapName

\* c.clock.Now(). LastAzureUpdate is kept relative to the stored one: a
\* stored time reads "same" ("never" before the first write), and the clock
\* gives that same time (the write falls into the second already recorded)
\* or a "later" one.
Now(a, tick) == IF tick \/ a.status.LastAzureUpdate = "never" THEN "later" ELSE "same"

\* AzureKeyVaultSecrets(ns).UpdateStatus(copy) against the stored resource
\* srv: not found, a resource-version conflict, or the status replaced (a
\* write that changes nothing stores nothing and keeps the version).
UpdateStatus(srv, copy) ==
    IF ~srv.exists THEN [err |-> "notfound", akvs |-> srv]
    ELSE IF copy.rv # srv.rv THEN [err |-> "conflict", akvs |-> srv]
    ELSE IF copy.status = srv.status THEN [err |-> "", akvs |-> srv]
    ELSE [err |-> "",
          akvs |-> [srv EXCEPT !.status = [copy.status EXCEPT !.LastAzureUpdate = "same"],
                               !.rv = @ + 1]]

\* A status write that records the name and the time but not the new hash.
updateAzureKeyVaultSecretStatusForSecret_KeepsHash(a, secretHash, now, srv) ==
    LET secretName == determineSecretName(a)
        akvsCopy == [a EXCEPT !.status.SecretName = secretName,
                              !.status.LastAzureUpdate = now]
    IN  UpdateStatus(srv, akvsCopy)

\* A status write for the secret that goes through the five-field writer
\* with an empty config-map name and hash.
updateAzureKeyVaultSecretStatusForSecret_AllFields(a, secretHash, now, srv) ==
    LET secretName == determineSecretName(a)
        akvsCopy == [a EXCEPT !.status.SecretName = secretName,
                              !.status.SecretHash = secretHash,
                              !.status.ConfigMapName = "",
                              !.status.ConfigMapHash = NoHash,
                              !.status.LastAzureUpdate = now]
    IN  UpdateStatus(srv, akvsCopy)

updateAzureKeyVaultSecretStatusForSecret(a, secretHash, now, srv) ==
    LET secretName == determineSecretName(a)
        akvsCopy == [a EXCEPT !.status.SecretName = secretName,
                              !.status.SecretHash = secretHash,
                              !.status.LastAzureUpdate = now]
    IN  UpdateStatus(srv, akvsCopy)

updateAzureKeyVaultSecretStatusForConfigMap(a, cmHash, now, srv) ==
    LET cmName == determineConfigMapName(a)
        akvsCopy == [a EXCEPT !.status.ConfigMapName = cmName,
                              !.status.ConfigMapHash = cmHash,
                              !.status.LastAzureUpdate = now]
    IN  UpdateStatus(srv, akvsCopy)

\* A fetch without the default case of the switch on the object type.
getSecretFromKeyVault_AnyType(a, vaultOk, content) ==
    IF ~vaultOk THEN [err |-> TRUE, value |-> 0]
    ELSE [err |-> FALSE, value |-> content]

\* A fetch that swallows the vault's failure and answers with no data.
getSecretFromKeyVault_Swallows(a, vaultOk, content) ==
    IF a.objType = "unsupported" THEN [err |-> TRUE, value |-> 0]
    ELSE IF ~vaultOk THEN [err |-> FALSE, value |-> 0]
    ELSE [err |-> FALSE, value |-> content]

\* getSecretFromKeyVault / getConfigMapFromKeyVault: the switch on the vault
\* object type, then the handler's fetch, which fails when the vault does.
getSecretFromKeyVault(a, vaultOk, content) ==
    IF a.objType = "unsupported" THEN [err |-> TRUE, value |-> 0]
    ELSE IF ~vaultOk THEN [err |-> TRUE, value |-> 0]
    ELSE [err |-> FALSE, value |-> content]

getConfigMapFromKeyVault(a, vaultOk, content) ==
    IF a.objType = "unsupported" THEN [err |-> TRUE, value |-> 0]
    ELSE IF ~vaultOk THEN [err |-> TRUE, value |-> 0]
    ELSE [err |-> FALSE, value |-> content]

createNewSecret(a, value) == [exists |-> TRUE, owner |-> AkvsUID, data |-> value]

createNewConfigMap(a, value) == [exists |-> TRUE, owner |-> AkvsUID, data |-> value]

updateExistingSecret(a, value, existing) == [existing EXCEPT !.data = value]

\* An error handler to which "not found" is an error like any other.
handleKeyVaultError_NeverExits(err) == FALSE

\* handleKeyVaultError(err, key): exit exactly on "not found".
handleKeyVaultError(err) == (err = "notfound")

\* handleKeyVaultError's log.Errorf("AzureKeyVaultSecret '%s' in work queue no
\* longer exists"): written exactly on "not found".
LogsNoLongerExists(err) == (err = "notfound")

\* getAzureKeyVaultSecret(key): the lister's answer, or another error.
getAzureKeyVaultSecret(listed, fault) ==
    IF fault THEN [err |-> "other", akvs |-> NoAkvs]
    ELSE IF ~listed.exists THEN [err |-> "notfound", akvs |-> NoAkvs]
    ELSE [err |-> "", akvs |-> listed]

\* ---------------------------------------------------- Output Reconciler

\* getOrCreateKubernetesSecret(akvs): the secret of the output's name, or a
\* new one, owned by akvs, holding the vault's payload; the creating pass
\* records name and digest in the status.
getOrCreateKubernetesSecret(a, srv, sec, vaultOk, content, now) ==
    IF sec.exists
    THEN [err |-> FALSE, obj |-> sec, akvs |-> srv, created |-> FALSE]
    ELSE LET got == getSecretFromKeyVault(a, vaultOk, content)
         IN  IF got.err
             THEN [err |-> TRUE, obj |-> sec, akvs |-> srv, created |-> FALSE]
             ELSE LET new == createNewSecret(a, got.value)
                      st == updateAzureKeyVaultSecretStatusForSecret(
                                a, getMD5HashOfByteValues(got.value), now, srv)
                  IN  [err |-> st.err # "", obj |-> new, akvs |-> st.akvs,
                       created |-> TRUE]

\* getOrCreateKubernetesConfigMap(akvs): the same for the config map.
getOrCreateKubernetesConfigMap(a, srv, cm, vaultOk, content, now) ==
    IF cm.exists
    THEN [err |-> FALSE, obj |-> cm, akvs |-> srv, created |-> FALSE]
    ELSE LET got == getConfigMapFromKeyVault(a, vaultOk, content)
         IN  IF got.err
             THEN [err |-> TRUE, obj |-> cm, akvs |-> srv, created |-> FALSE]
             ELSE LET new == createNewConfigMap(a, got.value)
                      st == updateAzureKeyVaultSecretStatusForConfigMap(
                                a, getMD5HashOfStringValues(got.value), now, srv)
                  IN  [err |-> st.err # "", obj |-> new, akvs |-> st.akvs,
                       created |-> TRUE]

\* What a pass of syncAzureKeyVaultSecret leaves: its result ("nil", "err",
\* or "panic" for a nil dereference), the lister's answer, the resource it
\* read, the recorder events as <<object, reason>>, and the API server's
\* objects after it.
CrdOutcome(result, lister, a, events, srv, sec, cm) ==
    [result |-> result, lister |-> lister, a |-> a, events |-> events,
     akvs |-> srv, secret |-> sec, configMap |-> cm]

\* A structural pass that also brings the payload of a secret it found up to
\* the vault's content.
syncAzureKeyVaultSecret_Refreshes(listed, in, srv, sec, cm, content) ==
    LET got == getAzureKeyVaultSecret(listed, in.fault)
        a == got.akvs
        now == Now(a, in.tick)
    IN
    IF got.err # ""
    THEN CrdOutcome(IF handleKeyVaultError(got.err) THEN "nil" ELSE "err",
                    got.err, a, {}, srv, sec, cm)
    ELSE
    LET g1 == IF akvsHasOutputSecret(a)
              THEN getOrCreateKubernetesSecret(a, srv, sec, in.okS, content, now)
              ELSE [err |-> FALSE, obj |-> sec, akvs |-> srv, created |-> FALSE]
        s1 == IF akvsHasOutputSecret(a) /\ ~g1.err /\ ~g1.created
              THEN [g1 EXCEPT !.obj = updateExistingSecret(a, content, g1.obj)]
              ELSE g1
        ev1 == IF akvsHasOutputSecret(a) THEN {<<"secret", "Synced">>} ELSE {}
    IN
    IF s1.err
    THEN CrdOutcome("err", "found", a, {}, s1.akvs, s1.obj, cm)
    ELSE
    LET c1 == IF akvsHasOutputConfigMap(a)
              THEN getOrCreateKubernetesConfigMap(a, s1.akvs, cm, in.okC, content, now)
              ELSE [err |-> FALSE, obj |-> cm, akvs |-> s1.akvs, created |-> FALSE]
        ev2 == IF akvsHasOutputConfigMap(a) THEN ev1 \cup {<<"configmap", "Synced">>} ELSE ev1
        outputObject == IF akvsHasOutputConfigMap(a) THEN c1.obj ELSE s1.obj
    IN
    IF c1.err
    THEN CrdOutcome("err", "found", a, ev1, c1.akvs, s1.obj, c1.obj)
    ELSE IF ~akvsHasOutputDefined(a)
    THEN CrdOutcome(IF in.nilOwned THEN "nil" ELSE "panic",
                    "found", a, ev2, c1.akvs, s1.obj, c1.obj)
    ELSE IF ~isOwnedBy(outputObject, a)
    THEN CrdOutcome("err", "found", a, ev2 \cup {<<"akvs", "ErrResourceExists">>},
                    c1.akvs, s1.obj, c1.obj)
    ELSE CrdOutcome("nil", "found", a, ev2, c1.akvs, s1.obj, c1.obj)

\* syncAzureKeyVaultSecret(key). in holds what the pass meets: the lister's
\* fault, whether each vault fetch succeeds, whether the clock has advanced,
\* and whether isOwnedBy accepts a nil object.
syncAzureKeyVaultSecret(listed, in, srv, sec, cm, content) ==
    LET got == getAzureKeyVaultSecret(listed, in.fault)
        a == got.akvs
        now == Now(a, in.tick)
    IN
    IF got.err # ""
    THEN CrdOutcome(IF handleKeyVaultError(got.err) THEN "nil" ELSE "err",
                    got.err, a, {}, srv, sec, cm)
    ELSE
    LET s1 == IF akvsHasOutputSecret(a)
              THEN getOrCreateKubernetesSecret(a, srv, sec, in.okS, content, now)
              ELSE [err |-> FALSE, obj |-> sec, akvs |-> srv, created |-> FALSE]
        ev1 == IF akvsHasOutputSecret(a) THEN {<<"secret", "Synced">>} ELSE {}
    IN
    IF s1.err
    THEN CrdOutcome("err", "found", a, {}, s1.akvs, s1.obj, cm)
    ELSE
    LET c1 == IF akvsHasOutputConfigMap(a)
              THEN getOrCreateKubernetesConfigMap(a, s1.akvs, cm, in.okC, content, now)
              ELSE [err |-> FALSE, obj |-> cm, akvs |-> s1.akvs, created |-> FALSE]
        ev2 == IF akvsHasOutputConfigMap(a) THEN ev1 \cup {<<"configmap", "Synced">>} ELSE ev1
        \* outputObject: the config map when there is one, else the secret
        outputObject == IF akvsHasOutputConfigMap(a) THEN c1.obj ELSE s1.obj
    IN
    IF c1.err
    THEN CrdOutcome("err", "found", a, ev1, c1.akvs, s1.obj, c1.obj)
    ELSE IF ~akvsHasOutputDefined(a)
    THEN \* outputObject is nil
         CrdOutcome(IF in.nilOwned THEN "nil" ELSE "panic",
                    "found", a, ev2, c1.akvs, s1.obj, c1.obj)
    ELSE IF ~isOwnedBy(outputObject, a)
    THEN CrdOutcome("err", "found", a, ev2 \cup {<<"akvs", "ErrResourceExists">>},
                    c1.akvs, s1.obj, c1.obj)
    ELSE CrdOutcome("nil", "found", a, ev2, c1.akvs, s1.obj, c1.obj)

\* ----------------------------------------------------- Vault Reconciler

\* What a pass of syncAzureKeyVault leaves: its result, the recorder events,
\* the API server's objects after it, and per output kind: the payload
\* fetched (0: none), whether Update was issued on the native object, whether
\* that object carried no owner reference to the resource, and whether
\* UpdateStatus was called.
AkvOutcome(result, events, srv, sec, cm, s, c) ==
    [result |-> result, events |-> events,
     akvs |-> srv, secret |-> sec, configMap |-> cm, s |-> s, c |-> c]

NoPart == [fetched |-> 0, update |-> FALSE, unowned |-> FALSE, status |-> FALSE]

\* A comparison that takes every fetch for a drift.
SecretHashChanged_Always(a, akvsValuesHash) == TRUE

\* akvs.Status.SecretHash != akvsValuesHash
SecretHashChanged(a, akvsValuesHash) == a.status.SecretHash # akvsValuesHash

\* The same for the config map.
ConfigMapHashChanged_Always(a, cmHash) == TRUE

\* akvs.Status.ConfigMapHash != cmHash
ConfigMapHashChanged(a, cmHash) == a.status.ConfigMapHash # cmHash

\* A secret half that creates the secret it does not find.
SyncSecretPart_Creates(a, in, srv, sec, content) ==
    LET got == getSecretFromKeyVault(a, in.okS, content)
        akvsValuesHash == getMD5HashOfByteValues(got.value)
        changed == SecretHashChanged(a, akvsValuesHash)
        updatedSecret == IF sec.exists THEN updateExistingSecret(a, got.value, sec)
                         ELSE createNewSecret(a, got.value)
        st == updateAzureKeyVaultSecretStatusForSecret(a, akvsValuesHash, Now(a, in.tick), srv)
    IN
    IF got.err
    THEN [err |-> TRUE, events |-> {<<"akvs", "ErrAzureVault">>},
          akvs |-> srv, secret |-> sec, part |-> NoPart]
    ELSE [err |-> st.err # "", events |-> {}, akvs |-> st.akvs,
          secret |-> IF changed THEN updatedSecret ELSE sec,
          part |-> [fetched |-> got.value, update |-> changed,
                    unowned |-> changed /\ ~isOwnedBy(sec, a), status |-> TRUE]]

\* The secret half of syncAzureKeyVault.
SyncSecretPart(a, in, srv, sec, content) ==
    LET got == getSecretFromKeyVault(a, in.okS, content)
        akvsValuesHash == getMD5HashOfByteValues(got.value)
        changed == SecretHashChanged(a, akvsValuesHash)
        updatedSecret == updateExistingSecret(a, got.value, sec)
        st == updateAzureKeyVaultSecretStatusForSecret(a, akvsValuesHash, Now(a, in.tick), srv)
    IN
    IF got.err
    THEN [err |-> TRUE, events |-> {<<"akvs", "ErrAzureVault">>},
          akvs |-> srv, secret |-> sec, part |-> NoPart]
    ELSE IF changed /\ ~sec.exists
    THEN \* failed to get existing secret
         [err |-> TRUE, events |-> {}, akvs |-> srv, secret |-> sec,
          part |-> [NoPart EXCEPT !.fetched = got.value]]
    ELSE [err |-> st.err # "", events |-> {}, akvs |-> st.akvs,
          secret |-> IF changed THEN updatedSecret ELSE sec,
          part |-> [fetched |-> got.value, update |-> changed,
                    unowned |-> changed /\ ~isOwnedBy(sec, a), status |-> TRUE]]

\* The config-map half of syncAzureKeyVault.
SyncConfigMapPart(a, in, srv, cm, content) ==
    LET got == getConfigMapFromKeyVault(a, in.okC, content)
        cmHash == getMD5HashOfStringValues(got.value)
        changed == ConfigMapHashChanged(a, cmHash)
        st == updateAzureKeyVaultSecretStatusForConfigMap(a, cmHash, Now(a, in.tick), srv)
    IN
    IF got.err
    THEN [err |-> TRUE, events |-> {<<"akvs", "ErrAzureVault">>},
          akvs |-> srv, configMap |-> cm, part |-> NoPart]
    ELSE IF changed /\ ~cm.exists
    THEN \* Update of a config map that does not exist
         [err |-> TRUE, events |-> {}, akvs |-> srv, configMap |-> cm,
          part |-> [NoPart EXCEPT !.fetched = got.value]]
    ELSE [err |-> st.err # "", events |-> {}, akvs |-> st.akvs,
          configMap |-> IF changed THEN createNewConfigMap(a, got.value) ELSE cm,
          part |-> [fetched |-> got.value, update |-> changed,
                    unowned |-> changed /\ ~isOwnedBy(cm, a), status |-> TRUE]]

\* syncAzureKeyVault(key), after the lister found the resource a.
syncAzureKeyVault(a, in, srv, sec, cm, content) ==
    LET p1 == IF akvsHasOutputSecret(a)
              THEN SyncSecretPart(a, in, srv, sec, content)
              ELSE [err |-> FALSE, events |-> {}, akvs |-> srv, secret |-> sec,
                    part |-> NoPart]
    IN
    IF p1.err
    THEN AkvOutcome("err", p1.events, p1.akvs, p1.secret, cm, p1.part, NoPart)
    ELSE
    LET p2 == IF akvsHasOutputConfigMap(a)
              THEN SyncConfigMapPart(a, in, p1.akvs, cm, content)
              ELSE [err |-> FALSE, events |-> {}, akvs |-> p1.akvs, configMap |-> cm,
                    part |-> NoPart]
    IN
    IF p2.err
    THEN AkvOutcome("err", p2.events, p2.akvs, p1.secret, p2.configMap, p1.part, p2.part)
    ELSE AkvOutcome("nil", {<<"akvs", "Synced">>}, p2.akvs, p1.secret, p2.configMap,
                    p1.part, p2.part)

\* --------------------------------------------------------- state machine

IdleCrdWorker ==
    [pc |-> "idle", result |-> "", lister |-> "", a |-> NoAkvs, events |-> {}]

IdleAkvWorker ==
    [pc |-> "idle", result |-> "", lister |-> "", a |-> NoAkvs, events |-> {},
     s |-> NoPart, c |-> NoPart]

\* What a pass meets, drawn by the environment.
Inputs(faults) ==
    [fault : faults, okS : BOOLEAN, okC : BOOLEAN, tick : BOOLEAN, nilOwned : BOOLEAN]

\* The lister never fails (a cache lookup of a well-formed key), or may fail.
NoFaults == {FALSE}
AnyFault == BOOLEAN

\* A panic, in a worker or in an event handler, ends the process.
Crashed == crdWorker.pc = "crashed"

Init ==
    /\ akvs \in {NewAkvs(sn, cn, t) : sn \in {"", SecretOutputName},
                                      cn \in {"", ConfigMapOutputName},
                                      t \in {"secret"}}
    /\ store = NoAkvs
    /\ secret \in {NoObject, ForeignObject}
    /\ configMap \in {NoObject, ForeignObject}
    /\ vault = 1
    /\ crdQueue = EmptyQueue
    /\ akvQueue = EmptyQueue
    /\ crdWorker = IdleCrdWorker
    /\ akvWorker = IdleAkvWorker
    /\ seenOutput = FALSE
    /\ deleteSeen = FALSE
    /\ settled = FALSE
    /\ specChanges = 0

\* A pass has returned and its worker has not yet handled the result. The
\* worker does so at once: nothing else is interleaved here.
Returned == crdWorker.pc = "done" \/ akvWorker.pc = "done"

\* The controller runs: no panic has ended the process.
Running == ~Crashed /\ ~Returned

\* ---- the environment

\* An operator changes the resource's spec (its outputs, or something else).
UserUpdate ==
    /\ ~Returned
    /\ akvs.exists /\ akvs.rv < MaxRV /\ specChanges < MaxSpecChanges
    /\ specChanges' = specChanges + 1
    /\ \E sn \in {"", SecretOutputName}, cn \in {"", ConfigMapOutputName} :
          akvs' = [akvs EXCEPT !.secretName = sn, !.configMapName = cn, !.rv = @ + 1]
    /\ settled' = FALSE
    /\ UNCHANGED <<store, secret, configMap, vault, crdQueue, akvQueue,
                   crdWorker, akvWorker, seenOutput, deleteSeen>>

\* An operator deletes the resource.
UserDelete ==
    /\ ~Returned
    /\ akvs.exists
    /\ akvs' = NoAkvs
    /\ settled' = FALSE
    /\ UNCHANGED <<store, secret, configMap, vault, crdQueue, akvQueue,
                   crdWorker, akvWorker, seenOutput, deleteSeen, specChanges>>

\* The vault object gets another payload.
VaultChange ==
    /\ ~Returned
    /\ vault < NumValues
    /\ vault' = vault + 1
    /\ settled' = FALSE
    /\ UNCHANGED <<akvs, store, secret, configMap, crdQueue, akvQueue,
                   crdWorker, akvWorker, seenOutput, deleteSeen, specChanges>>

\* ---- the informer: it brings its store up to the API server's state and
\* calls the handler of the change; a resync calls UpdateFunc(obj, obj).

InformerAdd ==
    /\ Running
    /\ ~store.exists /\ akvs.exists
    /\ store' = akvs
    /\ AddFunc(akvs)
    /\ UNCHANGED <<akvs, secret, configMap, vault, crdWorker, akvWorker, settled, specChanges>>

InformerUpdate ==
    /\ Running
    /\ store.exists /\ akvs.exists /\ store.rv # akvs.rv
    /\ store' = akvs
    /\ UpdateFunc(store, akvs)
    /\ UNCHANGED <<akvs, secret, configMap, vault, crdWorker, akvWorker, settled, specChanges>>

InformerResync ==
    /\ Running
    /\ store.exists
    /\ UpdateFunc(store, store)
    /\ UNCHANGED <<akvs, store, secret, configMap, vault, crdWorker, akvWorker, settled, specChanges>>

InformerDelete ==
    /\ Running
    /\ store.exists /\ ~akvs.exists
    /\ store' = NoAkvs
    /\ \E tombstone \in BOOLEAN : DeleteFunc(store, tombstone)
    /\ UNCHANGED <<akvs, secret, configMap, vault, crdWorker, akvWorker, settled, specChanges>>

\* The informer calls a handler with a payload that is not a declaring
\* resource.
InformerUnexpected ==
    /\ Running
    /\ \E handler \in {"AddFunc", "UpdateFunc", "DeleteFunc"}, payload \in UnexpectedPayloads :
          LET conv == convertToAzureKeyVaultSecret(payload)
          IN  crdWorker' = IF HandlerAfterConversion(handler, conv) = "panic"
                           THEN [IdleCrdWorker EXCEPT !.pc = "crashed", !.result = "panic"]
                           ELSE crdWorker
    /\ UNCHANGED <<akvs, store, secret, configMap, vault, crdQueue, akvQueue, akvWorker,
                   seenOutput, deleteSeen, settled, specChanges>>

\* ---- the structural worker

\* Get a key and run syncAzureKeyVaultSecret on it.
CrdProcess(faults) ==
    /\ Running
    /\ crdWorker.pc = "idle" /\ CanGet(crdQueue)
    /\ \E in \in Inputs(faults) :
          LET o == syncAzureKeyVaultSecret(store, in, akvs, secret, configMap, vault)
          IN  /\ o.akvs.rv <= MaxRV
              /\ akvs' = o.akvs
              /\ secret' = o.secret
              /\ configMap' = o.configMap
              /\ crdWorker' = [pc |-> IF o.result = "panic" THEN "crashed" ELSE "done",
                               result |-> o.result, lister |-> o.lister,
                               a |-> o.a, events |-> o.events]
    /\ crdQueue' = QueueGet(crdQueue)
    /\ UNCHANGED <<store, vault, akvQueue, akvWorker, seenOutput, deleteSeen, settled, specChanges>>

\* The worker handles the pass's result and marks the key Done.
CrdFinish ==
    /\ ~Crashed
    /\ crdWorker.pc = "done"
    /\ crdQueue' = HandleResult(crdQueue, crdWorker.result)
    /\ crdWorker' = IdleCrdWorker
    /\ UNCHANGED <<akvs, store, secret, configMap, vault, akvQueue, akvWorker,
                   seenOutput, deleteSeen, settled, specChanges>>

\* ---- the vault-drift worker

\* Get a key; syncAzureKeyVault asks the lister for the resource.
AkvGet(faults) ==
    /\ Running
    /\ akvWorker.pc = "idle" /\ CanGet(akvQueue)
    /\ \E fault \in faults :
          LET got == getAzureKeyVaultSecret(store, fault)
          IN  akvWorker' =
                IF got.err # ""
                THEN [IdleAkvWorker EXCEPT
                        !.pc = "done", !.lister = got.err,
                        !.result = IF handleKeyVaultError(got.err) THEN "nil" ELSE "err"]
                ELSE [IdleAkvWorker EXCEPT !.pc = "got", !.lister = "found", !.a = got.akvs]
    /\ akvQueue' = QueueGet(akvQueue)
    /\ UNCHANGED <<akvs, store, secret, configMap, vault, crdQueue, crdWorker,
                   seenOutput, deleteSeen, settled, specChanges>>

\* The rest of syncAzureKeyVault, on the resource the lister returned.
AkvSync ==
    /\ Running
    /\ akvWorker.pc = "got"
    /\ \E in \in Inputs(NoFaults) :
          LET o == syncAzureKeyVault(akvWorker.a, in, akvs, secret, configMap, vault)
          IN  /\ o.akvs.rv <= MaxRV
              /\ akvs' = o.akvs
              /\ secret' = o.secret
              /\ configMap' = o.configMap
              /\ akvWorker' = [akvWorker EXCEPT !.pc = "done", !.result = o.result,
                                                !.events = o.events, !.s = o.s, !.c = o.c]
              /\ settled' = (settled \/ (o.result = "nil" /\ (o.s.update \/ o.c.update)))
    /\ UNCHANGED <<store, vault, crdQueue, akvQueue, crdWorker, seenOutput, deleteSeen, specChanges>>

AkvFinish ==
    /\ ~Crashed
    /\ akvWorker.pc = "done"
    /\ akvQueue' = HandleResult(akvQueue, akvWorker.result)
    /\ akvWorker' = IdleAkvWorker
    /\ UNCHANGED <<akvs, store, secret, configMap, vault, crdQueue, crdWorker,
                   seenOutput, deleteSeen, settled, specChanges>>

Environment == UserUpdate \/ UserDelete \/ VaultChange

Informer == InformerAdd \/ InformerUpdate \/ InformerResync \/ InformerDelete

Next ==
    \/ Environment
    \/ Informer
    \/ CrdProcess(NoFaults) \/ CrdFinish
    \/ AkvGet(NoFaults) \/ AkvSync \/ AkvFinish

Spec == Init /\ [][Next]_vars

\* The same controller with a lister that may answer with an error other
\* than "not found".
NextFault ==
    \/ Environment
    \/ Informer
    \/ CrdProcess(AnyFault) \/ CrdFinish
    \/ AkvGet(AnyFault) \/ AkvSync \/ AkvFinish

SpecFault == Init /\ [][NextFault]_vars

\* The controller on malformed input: a declaring resource whose vault object
\* type is not one the handlers know, and an informer that may deliver
\* payloads that are not declaring resources.
InitMalformed ==
    /\ akvs \in {NewAkvs(sn, cn, t) : sn \in {"", SecretOutputName},
                                      cn \in {"", ConfigMapOutputName},
                                      t \in {"unsupported"}}
    /\ store = NoAkvs
    /\ secret \in {NoObject, ForeignObject}
    /\ configMap \in {NoObject, ForeignObject}
    /\ vault = 1
    /\ crdQueue = EmptyQueue
    /\ akvQueue = EmptyQueue
    /\ crdWorker = IdleCrdWorker
    /\ akvWorker = IdleAkvWorker
    /\ seenOutput = FALSE
    /\ deleteSeen = FALSE
    /\ settled = FALSE
    /\ specChanges = 0

NextMalformed == Next \/ InformerUnexpected

SpecMalformed == InitMalformed /\ [][NextMalformed]_vars

\* The vault-drift worker alone, on a resource with both outputs whose native
\* objects exist and are owned, with a vault that answers every fetch and an
\* informer that has brought the lister up to date before each pass. The
\* resource is not changed from outside and the vault content stays.
StatusesOf(vals) ==
    {[SecretName |-> IF sh = NoHash THEN "" ELSE SecretOutputName, SecretHash |-> sh,
      ConfigMapName |-> IF ch = NoHash THEN "" ELSE ConfigMapOutputName, ConfigMapHash |-> ch,
      LastAzureUpdate |-> IF sh = NoHash /\ ch = NoHash THEN "never" ELSE "same"] :
        sh \in {NoHash} \cup {getMD5HashOfByteValues(v) : v \in vals},
        ch \in {NoHash} \cup {getMD5HashOfStringValues(v) : v \in vals}}

InitConverge ==
    /\ akvs \in {[NewAkvs(SecretOutputName, ConfigMapOutputName, "secret")
                     EXCEPT !.status = st] : st \in StatusesOf(VaultValues)}
    /\ store = akvs
    /\ secret \in {createNewSecret(akvs, v) : v \in VaultValues}
    /\ configMap \in {createNewConfigMap(akvs, v) : v \in VaultValues}
    /\ vault \in VaultValues
    /\ crdQueue = EmptyQueue
    /\ akvQueue = Enqueue(EmptyQueue)
    /\ crdWorker = IdleCrdWorker
    /\ akvWorker = IdleAkvWorker
    /\ seenOutput = TRUE
    /\ deleteSeen = FALSE
    /\ settled = FALSE
    /\ specChanges = 0

\* The rest of syncAzureKeyVault, with the vault answering. Resource versions
\* are opaque and only compared for equality: the version the pass leaves is
\* numbered 0 again, and the informer delivers it to the lister before the
\* next pass.
ConvergeSync ==
    /\ Running
    /\ akvWorker.pc = "got"
    /\ \E in \in {i \in Inputs(NoFaults) : i.okS /\ i.okC} :
          LET o == syncAzureKeyVault(akvWorker.a, in, akvs, secret, configMap, vault)
          IN  /\ akvs' = [o.akvs EXCEPT !.rv = 0]
              /\ store' = akvs'
              /\ secret' = o.secret
              /\ configMap' = o.configMap
              /\ akvWorker' = [akvWorker EXCEPT !.pc = "done", !.result = o.result,
                                                !.events = o.events, !.s = o.s, !.c = o.c]
              /\ settled' = (settled \/ (o.result = "nil" /\ (o.s.update \/ o.c.update)))
    /\ UNCHANGED <<vault, crdQueue, akvQueue, crdWorker, seenOutput, deleteSeen, specChanges>>

NextConverge ==
    \/ InformerResync
    \/ AkvGet(NoFaults) \/ ConvergeSync \/ AkvFinish

\* Every enabled step of the worker and every resync is eventually taken.
SpecConverge ==
    /\ InitConverge /\ [][NextConverge]_vars
    /\ WF_vars(InformerResync) /\ WF_vars(AkvGet(NoFaults))
    /\ WF_vars(ConvergeSync) /\ WF_vars(AkvFinish)

\* ================================================================ claims

\* The step in which a pass of syncAzureKeyVaultSecret runs: the unprimed
\* state is the one it starts in, the primed one the one it returns in.
CrdPassStep == crdWorker.pc = "idle" /\ crdWorker'.pc # "idle"

\* The step in which syncAzureKeyVault, holding the resource, runs to its return.
AkvPassStep == akvWorker.pc = "got" /\ akvWorker'.pc = "done"

\* A native object exists and carries no owner reference to the resource.
Unowned(obj, a) == obj.exists /\ ~isOwnedBy(obj, a)

\* C1: whenever syncAzureKeyVaultSecret returns success for a resource the
\* lister found, every native output object the resource defines (the secret,
\* the config map, or both) exists and carries an owner reference to the
\* resource.
C1_SuccessMeansOwned ==
    (crdWorker.pc = "done" /\ crdWorker.result = "nil" /\ crdWorker.lister = "found")
    => /\ akvsHasOutputSecret(crdWorker.a) => isOwnedBy(secret, crdWorker.a)
       /\ akvsHasOutputConfigMap(crdWorker.a) => isOwnedBy(configMap, crdWorker.a)

\* C2: syncAzureKeyVault never issues an Update to a native secret or config
\* map that carries no owner reference to the resource being reconciled, so a
\* pre-existing unrelated object keeps its data.
C2_VaultWritesOnlyOwned ==
    /\ akvWorker.pc = "done" => (~akvWorker.s.unowned /\ ~akvWorker.c.unowned)
    /\ (secret.exists /\ secret.owner = "") => secret = ForeignObject

\* The pass's get-or-create calls all returned an object: it reached the
\* ownership check.
ReachedOwnershipCheck(w, a) ==
    /\ akvsHasOutputSecret(a) => <<"secret", "Synced">> \in w.events
    /\ akvsHasOutputConfigMap(a) => <<"configmap", "Synced">> \in w.events

\* C3: when a native object with the requested output name exists without an
\* owner reference to the resource, a pass of syncAzureKeyVaultSecret for the
\* resource (one whose lookups and creations themselves succeed) records a
\* warning event on the resource, returns an error, and leaves the object
\* unchanged.
C3_ConflictReported ==
    [][(/\ CrdPassStep
        /\ crdWorker'.lister = "found"
        /\ ReachedOwnershipCheck(crdWorker', store)
        /\ \/ akvsHasOutputSecret(store) /\ Unowned(secret, store)
           \/ akvsHasOutputConfigMap(store) /\ Unowned(configMap, store))
       => /\ crdWorker'.result = "err"
          /\ <<"akvs", "ErrResourceExists">> \in crdWorker'.events
          /\ Unowned(secret, store) => secret' = secret
          /\ Unowned(configMap, store) => configMap' = configMap]_vars

\* The number of native-object Updates a vault pass issued.
Updates(w) == (IF w.s.update THEN 1 ELSE 0) + (IF w.c.update THEN 1 ELSE 0)

\* The pass fetched the secret payload and its digest differs from (equals)
\* the hash recorded in the resource it read; the same for the config map.
SecretDrift(w) ==
    /\ akvsHasOutputSecret(w.a) /\ w.s.fetched # 0
    /\ w.a.status.SecretHash # getMD5HashOfByteValues(w.s.fetched)

SecretSame(w) ==
    /\ akvsHasOutputSecret(w.a) /\ w.s.fetched # 0
    /\ w.a.status.SecretHash = getMD5HashOfByteValues(w.s.fetched)

ConfigMapDrift(w) ==
    /\ akvsHasOutputConfigMap(w.a) /\ w.c.fetched # 0
    /\ w.a.status.ConfigMapHash # getMD5HashOfStringValues(w.c.fetched)

ConfigMapSame(w) ==
    /\ akvsHasOutputConfigMap(w.a) /\ w.c.fetched # 0
    /\ w.a.status.ConfigMapHash = getMD5HashOfStringValues(w.c.fetched)

\* C4: a successful pass of syncAzureKeyVault that finds a recorded hash
\* differing from the vault content issues exactly one native-object Update,
\* and every successful pass after it, while vault content and spec stay
\* unchanged, issues none.
C4_VaultSyncIdempotent ==
    [][(AkvPassStep /\ akvWorker'.result = "nil")
       => /\ (SecretDrift(akvWorker') \/ ConfigMapDrift(akvWorker'))
                => Updates(akvWorker') = 1
          /\ settled => Updates(akvWorker') = 0]_vars

\* A successful pass that wrote nothing, after a pass that propagated a drift.
C4_Witness ==
    /\ akvWorker.pc = "done" /\ akvWorker.result = "nil" /\ settled
    /\ SecretSame(akvWorker) /\ Updates(akvWorker) = 0

\* C5: when the digest of the fetched vault content differs from
\* status.SecretHash (status.ConfigMapHash) and the pass returns success, the
\* native secret (config map) has been updated with the fetched data and the
\* persisted status hash is the digest of that data.
C5_DriftPropagated ==
    (akvWorker.pc = "done" /\ akvWorker.result = "nil")
    => /\ SecretDrift(akvWorker)
            => /\ akvWorker.s.update
               /\ secret.exists /\ secret.data = akvWorker.s.fetched
               /\ akvs.exists
               /\ akvs.status.SecretHash = getMD5HashOfByteValues(akvWorker.s.fetched)
       /\ ConfigMapDrift(akvWorker)
            => /\ akvWorker.c.update
               /\ configMap.exists /\ configMap.data = akvWorker.c.fetched
               /\ akvs.exists
               /\ akvs.status.ConfigMapHash = getMD5HashOfStringValues(akvWorker.c.fetched)

\* A successful pass that found a drift on a later vault payload.
C5_Witness ==
    /\ akvWorker.pc = "done" /\ akvWorker.result = "nil"
    /\ SecretDrift(akvWorker) /\ akvWorker.s.fetched > 1

C8_UpdateRouting ==
    [][(InformerUpdate \/ InformerResync)
       => IF store'.rv = store.rv /\ akvsHasOutputDefined(store')
          THEN akvQueue'.dirty /\ crdQueue' = crdQueue
          ELSE IF akvsHasOutputDefined(store') \/ akvsHasOutputDefined(store)
          THEN crdQueue'.dirty /\ akvQueue' = akvQueue
          ELSE crdQueue' = crdQueue /\ akvQueue' = akvQueue]_vars

\* After an Update that changed the version (structural queue, since handled)
\* a resync put the key on the vault-drift queue only.
C8_Witness ==
    /\ store.exists /\ store.rv > 0 /\ akvsHasOutputDefined(store)
    /\ akvQueue = [EmptyQueue EXCEPT !.dirty = TRUE]
    /\ crdQueue = EmptyQueue

\* C9: after DeleteFunc ran for a resource with output defined, the worker
\* schedules no further retry (AddRateLimited) of the key on the vault-drift
\* queue.
C9_NoRetryAfterDelete ==
    [][deleteSeen => akvQueue'.requeues <= akvQueue.requeues]_vars

\* C10: when the lister reports "not found", syncAzureKeyVaultSecret and
\* syncAzureKeyVault return nil without a native-object write, a status write
\* or a recorder event, and the worker forgets the key; on any other lister
\* error they return the error, equally without writes, and the worker
\* retries the key (below its retry ceiling).
C10_ListerErrors ==
    [][/\ (CrdPassStep /\ crdWorker'.lister \in {"notfound", "other"})
            => /\ crdWorker'.result = IF crdWorker'.lister = "notfound" THEN "nil" ELSE "err"
               /\ crdWorker'.events = {}
               /\ UNCHANGED <<akvs, secret, configMap>>
       /\ (akvWorker.pc = "idle" /\ akvWorker'.pc = "done")
            => /\ akvWorker'.lister \in {"notfound", "other"}
               /\ akvWorker'.result = IF akvWorker'.lister = "notfound" THEN "nil" ELSE "err"
               /\ akvWorker'.events = {}
               /\ UNCHANGED <<akvs, secret, configMap>>
       /\ (crdWorker.pc = "done" /\ crdWorker'.pc = "idle" /\ crdWorker.lister # "found")
            => IF crdWorker.lister = "other" /\ crdQueue.requeues < MaxRetries
               THEN crdQueue'.dirty /\ crdQueue'.requeues = crdQueue.requeues + 1
               ELSE crdQueue'.dirty = crdQueue.dirty /\ crdQueue'.requeues = 0
       /\ (akvWorker.pc = "done" /\ akvWorker'.pc = "idle" /\ akvWorker.lister # "found")
            => IF akvWorker.lister = "other" /\ akvQueue.requeues < MaxRetries
               THEN akvQueue'.dirty /\ akvQueue'.requeues = akvQueue.requeues + 1
               ELSE akvQueue'.dirty = akvQueue.dirty /\ akvQueue'.requeues = 0]_vars

\* The vault pass of a deleted resource returned on "not found", after a
\* structural pass was retried on another lister error.
C10_Witness ==
    /\ akvWorker.pc = "done" /\ akvWorker.lister = "notfound" /\ akvWorker.result = "nil"
    /\ deleteSeen /\ crdQueue.requeues > 0

\* The secret fields and the config-map fields of a status.
SecretGroup(st) == <<st.SecretName, st.SecretHash>>

ConfigMapGroup(st) == <<st.ConfigMapName, st.ConfigMapHash>>

\* C11: a status write made for the secret output leaves the persisted
\* ConfigMapName and ConfigMapHash as they were immediately before it, and a
\* write made for the config-map output leaves SecretName and SecretHash: no
\* step changes both groups, and a vault pass that made no write for a kind
\* leaves that kind's group unchanged.
C11_StatusGroupsKept ==
    [][(akvs.exists /\ akvs'.exists)
       => /\ ~(/\ SecretGroup(akvs'.status) # SecretGroup(akvs.status)
               /\ ConfigMapGroup(akvs'.status) # ConfigMapGroup(akvs.status))
          /\ (AkvPassStep /\ ~akvWorker'.c.status)
                => ConfigMapGroup(akvs'.status) = ConfigMapGroup(akvs.status)
          /\ (AkvPassStep /\ ~akvWorker'.s.status)
                => SecretGroup(akvs'.status) = SecretGroup(akvs.status)]_vars

\* A vault pass wrote a new secret hash into a status that held a config-map
\* hash, and the config-map hash is still there.
C11_Witness ==
    /\ akvWorker.pc = "done" /\ akvWorker.s.status
    /\ akvs.exists /\ akvs.status.SecretHash # akvWorker.a.status.SecretHash
    /\ akvWorker.a.status.ConfigMapHash # NoHash
    /\ akvs.status.ConfigMapHash = akvWorker.a.status.ConfigMapHash

\* The step is the vault pass that met the inputs in.
AkvPassWith(in) ==
    /\ AkvPassStep
    /\ LET o == syncAzureKeyVault(akvWorker.a, in, akvs, secret, configMap, vault)
       IN  /\ akvs' = o.akvs /\ secret' = o.secret /\ configMap' = o.configMap
           /\ akvWorker'.result = o.result /\ akvWorker'.events = o.events
           /\ akvWorker'.s = o.s /\ akvWorker'.c = o.c

\* The pass asks the vault for the secret payload and the vault fails; the
\* pass gets as far as the config-map payload and the vault fails there.
SecretFetchFails(a, in) == akvsHasOutputSecret(a) /\ ~in.okS

ConfigMapFetchFails(a, in, srv, sec, content) ==
    /\ akvsHasOutputConfigMap(a) /\ ~in.okC
    /\ akvsHasOutputSecret(a) => ~SyncSecretPart(a, in, srv, sec, content).err

\* C12: when the vault fetch for an output kind fails in a pass of
\* syncAzureKeyVault, an ErrAzureVault warning is recorded on the resource,
\* the pass returns an error, neither the native object nor the status hash
\* of that kind is written, and the worker retries the key (below its retry
\* ceiling).
C12_FetchFailure ==
    [][/\ \A in \in Inputs(NoFaults) :
            AkvPassWith(in)
            => /\ SecretFetchFails(akvWorker.a, in)
                    => /\ akvWorker'.result = "err"
                       /\ <<"akvs", "ErrAzureVault">> \in akvWorker'.events
                       /\ secret' = secret /\ ~akvWorker'.s.update
                       /\ akvs' = akvs /\ ~akvWorker'.s.status
               /\ ConfigMapFetchFails(akvWorker.a, in, akvs, secret, vault)
                    => /\ akvWorker'.result = "err"
                       /\ <<"akvs", "ErrAzureVault">> \in akvWorker'.events
                       /\ configMap' = configMap /\ ~akvWorker'.c.update
                       /\ akvs'.exists
                            => akvs'.status.ConfigMapHash = akvs.status.ConfigMapHash
                       /\ ~akvWorker'.c.status
       /\ (/\ akvWorker.pc = "done" /\ akvWorker'.pc = "idle"
           /\ <<"akvs", "ErrAzureVault">> \in akvWorker.events
           /\ akvQueue.requeues < MaxRetries)
            => akvQueue'.dirty /\ akvQueue'.requeues = akvQueue.requeues + 1]_vars

\* The secret half of a pass succeeded, then the fetch for the config map
\* failed.
C12_Witness ==
    /\ akvWorker.pc = "done" /\ akvWorker.result = "err"
    /\ <<"akvs", "ErrAzureVault">> \in akvWorker.events
    /\ akvWorker.s.status /\ akvWorker.c = NoPart

\* The recorder events of a pass whose object is the declaring resource.
EventsOnAkvs(events) == {e \in events : e[1] = "akvs"}

\* C13: every pass of syncAzureKeyVaultSecret or syncAzureKeyVault that
\* creates a native output object or changes its content records, in that
\* pass, a recorder event on the declaring resource, also when the pass
\* fails after the native write.
C13_AuditTrail ==
    [][/\ (CrdPassStep /\ (secret' # secret \/ configMap' # configMap))
            => EventsOnAkvs(crdWorker'.events) # {}
       /\ (AkvPassStep /\ (secret' # secret \/ configMap' # configMap))
            => EventsOnAkvs(akvWorker'.events) # {}]_vars

C15_UnexpectedPayloadDropped ==
    [][InformerUnexpected
       => /\ crdQueue' = crdQueue /\ akvQueue' = akvQueue
          /\ ~Crashed' /\ Running']_vars

\* The key waits on the vault-drift queue for a retry.
PendingRetry(q) == q.dirty /\ q.requeues > 0

\* C16: when the resource is deleted while its key is pending retry on the
\* vault-drift queue, DeleteFunc clears the key's retry state, and the next
\* drain of the key (which finds what the lister holds after the deletion)
\* logs no error about a missing resource.
C16_DeleteWhilePendingRetry ==
    [][(InformerDelete /\ akvsHasOutputDefined(store) /\ PendingRetry(akvQueue))
       => /\ akvQueue'.requeues = 0
          /\ akvQueue'.dirty
                => ~LogsNoLongerExists(getAzureKeyVaultSecret(store', FALSE).err)]_vars

\* A pass has returned success and both status hashes are the digests of the
\* vault content.
Converged ==
    /\ akvWorker.pc = "done" /\ akvWorker.result = "nil"
    /\ akvs.status.SecretHash = getMD5HashOfByteValues(vault)
    /\ akvs.status.ConfigMapHash = getMD5HashOfStringValues(vault)

\* C17: for a resource with both outputs, whose native objects exist and are
\* owned and whose vault content stays unchanged, repeated passes of
\* syncAzureKeyVault (each retried on error, each reading the latest persisted
\* resource) eventually reach a state where both status hashes are the
\* digests of the vault content and a pass returns success.
C17_Converges == <>Converged

\* C18: a pass of syncAzureKeyVaultSecret for a resource the lister holds and
\* that defines no output performs no native-object operation, records no
\* ErrResourceExists event and returns success.
C18_NoOutputPassSucceeds ==
    [][(CrdPassStep /\ crdWorker'.lister = "found" /\ ~akvsHasOutputDefined(crdWorker'.a))
       => /\ crdWorker'.result = "nil" /\ ~Crashed'
          /\ secret' = secret /\ configMap' = configMap
          /\ <<"akvs", "ErrResourceExists">> \notin crdWorker'.events]_vars

\* C19: syncAzureKeyVault never creates a native object. When the recorded
\* hash differs from the digest of the fetched content and the secret (the
\* config map) does not exist, the pass returns an error, the object still
\* does not exist, and the status fields of that output keep their values.
C19_VaultPassNeverCreates ==
    [][AkvPassStep
       => /\ ~secret.exists => secret' = secret
          /\ ~configMap.exists => configMap' = configMap
          /\ (SecretDrift(akvWorker') /\ ~secret.exists)
             => /\ akvWorker'.result = "err"
                /\ akvs' = akvs /\ configMap' = configMap
          /\ (ConfigMapDrift(akvWorker') /\ ~configMap.exists)
             => /\ akvWorker'.result = "err"
                /\ akvs.exists => ConfigMapGroup(akvs'.status) = ConfigMapGroup(akvs.status)]_vars

C19_Witness ==
    /\ akvWorker.pc = "done" /\ akvWorker.result = "err"
    /\ SecretDrift(akvWorker) /\ ~secret.exists
    /\ akvs.exists /\ akvs.status.SecretHash = NoHash

\* What a vault-drift pass for a resource of an unsupported object type must
\* leave: an error, no native object written, no status written.
FailsWithoutWrite ==
    /\ akvWorker'.result = "err"
    /\ secret' = secret /\ configMap' = configMap /\ akvs' = akvs
    /\ ~akvWorker'.s.update /\ ~akvWorker'.c.update
    /\ ~akvWorker'.s.status /\ ~akvWorker'.c.status

\* The worker handles the error of such a pass like any other: below the
\* retry ceiling the key goes back on the queue with one more requeue.
RetriedLikeTransient ==
    (/\ akvWorker.pc = "done" /\ akvWorker'.pc = "idle"
     /\ akvWorker.lister = "found" /\ akvWorker.a.objType = "unsupported"
     /\ akvWorker.result = "err"
     /\ akvQueue.requeues < MaxRetries)
    => akvQueue'.dirty /\ akvQueue'.requeues = akvQueue.requeues + 1

\* C20 as stated: for a resource whose vault object type is none of Secret,
\* Certificate, Key or MultiKeySecret, every pass of syncAzureKeyVault returns
\* an error that the worker retries like a transient one, and writes no
\* native object and no status.
C20_UnsupportedTypeAlwaysFails ==
    [][/\ (AkvPassStep /\ akvWorker.a.objType = "unsupported") => FailsWithoutWrite
       /\ RetriedLikeTransient]_vars

\* C20, amended: the same for every pass of syncAzureKeyVault that finds the
\* resource with an output defined; a pass that finds it without any output
\* fetches nothing, writes nothing and returns success.
C20_UnsupportedTypeWithOutputFails ==
    [][/\ (AkvPassStep /\ akvWorker.a.objType = "unsupported")
            => IF akvsHasOutputDefined(akvWorker.a)
               THEN FailsWithoutWrite
               ELSE /\ akvWorker'.result = "nil"
                    /\ secret' = secret /\ configMap' = configMap /\ akvs' = akvs
       /\ RetriedLikeTransient]_vars

\* The pass for a resource of an unsupported type failed, the worker has put
\* the key back, and the next pass has failed again.
C20_Witness ==
    /\ akvWorker.pc = "done" /\ akvWorker.result = "err"
    /\ akvWorker.a.objType = "unsupported" /\ akvsHasOutputDefined(akvWorker.a)
    /\ akvQueue.requeues > 0

====
